---- MODULE Spec2Model ----
(***************************************************************************)
(* A model of the jni-verify attribute macro (src/src/lib.rs).             *)
(*                                                                         *)
(* verify_signature(name, descriptor) is attached to a function.  It       *)
(* parses the descriptor, then runs four checks on the function in a fixed *)
(* order; every check either aborts the expansion with a diagnostic or     *)
(* lets the next one run.                                                  *)
(*                                                                         *)
(* Text is modelled as a sequence of one-character strings, so that the    *)
(* regular expressions of the source act on characters as they do in the   *)
(* program.  A native type name (the string type_path_as_string yields)    *)
(* is an atomic string: the code only compares it for equality and uses it *)
(* as a map key.                                                           *)
(*                                                                         *)
(* Left out: the span an abort is anchored to (only what the message       *)
(* reports is kept), the eprintln! of ensure_parameters_match, and         *)
(* functions with a receiver or with a parameter or return type that is    *)
(* not a path, on which fn_arg_as_string and ensure_return_types_match     *)
(* stop before any comparison.                                             *)
(***************************************************************************)
EXTENDS Integers, Sequences, FiniteSets, TLC

VARIABLES
    name,       \* the macro's first argument: the Java method name
    sig,        \* the macro's second argument: the descriptor text
    ident,      \* function.sig.ident
    inputs,     \* function.sig.inputs, each as fn_arg_as_string gives it
    output,     \* function.sig.output: <<>> for ReturnType::Default, <<t>> for a type
    pc,         \* the call of verify_signature that runs next (or that aborted)
    signature,  \* the parsed Signature {params, ret}
    arguments,  \* the VecDeque `arguments` of verify_signature
    lookups,    \* the keys TYPE_TO_DESCRIPTOR.get was called with, in order
    outcome,    \* "none" while running, "Pass", or the kind of the abort
    diag        \* what the abort message reports

vars == <<name, sig, ident, inputs, output, pc, signature, arguments, lookups, outcome, diag>>

----------------------------------------------------------------------------
(* Characters *)

\* The primitive codes of TYPE_REGEX's class [IJBZCSFDV].
PrimCodes == {"I", "J", "B", "Z", "C", "S", "F", "D", "V"}

\* \w of the regex crate, restricted to ASCII.
WordChars ==
    {"a","b","c","d","e","f","g","h","i","j","k","l","m","n","o","p","q","r","s","t","u","v","w","x","y","z",
     "A","B","C","D","E","F","G","H","I","J","K","L","M","N","O","P","Q","R","S","T","U","V","W","X","Y","Z",
     "0","1","2","3","4","5","6","7","8","9","_"}

\* [^IJBZCSFDVL;] : the first class of TYPE_REGEX's first alternative.
InClassA(c) == c \notin (PrimCodes \cup {"L", ";"})

\* [^IJBZCSFDVL;\[] : the trailing class of TYPE_REGEX's first alternative.
InClassB(c) == c \notin (PrimCodes \cup {"L", ";", "["})

\* [\w\.] : the class of TYPE_REGEX's second alternative.
InClassPath(c) == c \in WordChars \cup {"."}

----------------------------------------------------------------------------
(* Sequence helpers *)

RECURSIVE Flatten(_)
Flatten(ss) == IF ss = <<>> THEN <<>> ELSE Head(ss) \o Flatten(Tail(ss))

\* s[from .. to-1]
Slice(s, from, to) == SubSeq(s, from, to - 1)

\* The number of consecutive characters of s from position p on that satisfy
\* In (a greedy star or plus over a character class stops at the first
\* character outside the class).
RECURSIVE RunA(_, _)
RunA(s, p) == IF p <= Len(s) /\ InClassA(s[p]) THEN 1 + RunA(s, p + 1) ELSE 0
RECURSIVE RunB(_, _)
RunB(s, p) == IF p <= Len(s) /\ InClassB(s[p]) THEN 1 + RunB(s, p + 1) ELSE 0
RECURSIVE RunPath(_, _)
RunPath(s, p) == IF p <= Len(s) /\ InClassPath(s[p]) THEN 1 + RunPath(s, p + 1) ELSE 0

----------------------------------------------------------------------------
(* Regular expressions of the registry and of the naming check.            *)
(* A regex is a sequence of atoms: a one-character string is that literal, *)
(* "ANY" is `.`, "ANY+" is `.+`, "PRIM" is the class [IJBZCSFDV].          *)

\* Does re, from its k-th atom on, match s from position i on (ending
\* anywhere)?  `.+` takes one or more characters, backtracking over how many.
RECURSIVE MatchFrom(_, _, _, _)
MatchFrom(re, k, s, i) ==
    IF k > Len(re) THEN TRUE
    ELSE IF re[k] = "ANY+" THEN \E j \in (i + 1)..(Len(s) + 1) : MatchFrom(re, k + 1, s, j)
    ELSE IF i > Len(s) THEN FALSE
    ELSE IF re[k] = "ANY" THEN MatchFrom(re, k + 1, s, i + 1)
    ELSE IF re[k] = "PRIM" THEN s[i] \in PrimCodes /\ MatchFrom(re, k + 1, s, i + 1)
    ELSE s[i] = re[k] /\ MatchFrom(re, k + 1, s, i + 1)

\* Regex::is_match: the pattern is searched for anywhere in the text.
IsMatch(re, s) == \E i \in 1..(Len(s) + 1) : MatchFrom(re, 1, s, i)

----------------------------------------------------------------------------
(* Args::parse: the descriptor parser *)

\* SIGNATURE_REGEX = \((?<params>.*)\)(?<ret>.+), searched for anywhere in the
\* text.  The match starts at the leftmost "(" that has a ")" after it with at
\* least one character behind; the greedy `.*` runs to the last such ")".
Closes(s, o) == {j \in (o + 1)..(Len(s) - 1) : s[j] = ")"}
Opens(s) == {o \in 1..Len(s) : s[o] = "(" /\ Closes(s, o) # {}}
Least(S) == CHOOSE x \in S : \A y \in S : x <= y
Greatest(S) == CHOOSE x \in S : \A y \in S : x >= y

SignatureMatches(s) == Opens(s) # {}

\* The named groups `params` and `ret` of the match.
SignatureCaptures(s) ==
    LET o == Least(Opens(s))
        c == Greatest(Closes(s, o))
    IN  [params |-> Slice(s, o + 1, c), ret |-> Slice(s, c + 1, Len(s) + 1)]

\* TYPE_REGEX = \[?(?:[^IJBZCSFDVL;]*[IJBZCSFDV][^IJBZCSFDVL;\[]*|L[\w\.]+\;)
\* Each operator gives the position just after the match that starts at q, or
\* 0 when there is none.
\* First alternative: the first class holds no primitive code, so its greedy
\* star must stop exactly where the run of class characters stops, and the
\* next character must be a primitive code; the trailing star is greedy.
Alt1End(s, q) ==
    LET k == RunA(s, q)
    IN  IF q + k <= Len(s) /\ s[q + k] \in PrimCodes
        THEN q + k + 1 + RunB(s, q + k + 1)
        ELSE 0

\* Second alternative: L, one or more path characters, then ";".
Alt2End(s, q) ==
    IF q <= Len(s) /\ s[q] = "L"
    THEN LET r == RunPath(s, q + 1)
         IN  IF r >= 1 /\ q + 1 + r <= Len(s) /\ s[q + 1 + r] = ";"
             THEN q + r + 2
             ELSE 0
    ELSE 0

\* The alternation prefers its first branch (leftmost-first semantics).
GroupEnd(s, q) == IF Alt1End(s, q) # 0 THEN Alt1End(s, q) ELSE Alt2End(s, q)

\* `\[?` is greedy: one "[" is taken when the rest then matches, else none.
TypeMatchEnd(s, p) ==
    IF p <= Len(s) /\ s[p] = "[" /\ GroupEnd(s, p + 1) # 0
    THEN GroupEnd(s, p + 1)
    ELSE GroupEnd(s, p)

\* TYPE_REGEX.captures_iter(haystack): the successive non-overlapping
\* leftmost matches; text that matches nothing is skipped.
RECURSIVE CapturesIter(_, _)
CapturesIter(s, p) ==
    IF p > Len(s) THEN <<>>
    ELSE IF TypeMatchEnd(s, p) = 0 THEN CapturesIter(s, p + 1)
    ELSE <<Slice(s, p, TypeMatchEnd(s, p))>> \o CapturesIter(s, TypeMatchEnd(s, p))

\* The Signature that Args::parse builds from a descriptor SIGNATURE_REGEX matches.
ParseSignature(s) ==
    [params |-> CapturesIter(SignatureCaptures(s).params, 1),
     ret |-> SignatureCaptures(s).ret]

----------------------------------------------------------------------------
(* The type registry *)

TYPE_TO_DESCRIPTOR ==
    ("()" :> <<"V">>)
    @@ ("jint" :> <<"I">>)
    @@ ("jlong" :> <<"J">>)
    @@ ("jbyte" :> <<"B">>)
    @@ ("jboolean" :> <<"Z">>)
    @@ ("jchar" :> <<"C">>)
    @@ ("jshort" :> <<"S">>)
    @@ ("jfloat" :> <<"F">>)
    @@ ("jdouble" :> <<"D">>)
    @@ ("jobject" :> <<"L", "ANY+", ";">>)
    @@ ("jclass" :> <<"L", "j", "a", "v", "a", "ANY", "l", "a", "n", "g", "ANY", "C", "l", "a", "s", "s", ";">>)
    @@ ("jthrowable" :> <<"L", "j", "a", "v", "a", "ANY", "l", "a", "n", "g", "ANY", "T", "h", "r", "o", "w", "a", "b", "l", "e", ";">>)
    @@ ("jstring" :> <<"L", "j", "a", "v", "a", "ANY", "l", "a", "n", "g", "ANY", "S", "t", "r", "i", "n", "g", ";">>)
    @@ ("jarray" :> <<"[", "ANY+">>)
    @@ ("jbooleanArray" :> <<"[", "Z">>)
    @@ ("jbyteArray" :> <<"[", "B">>)
    @@ ("jcharArray" :> <<"[", "C">>)
    @@ ("jshortArray" :> <<"[", "S">>)
    @@ ("jintArray" :> <<"[", "I">>)
    @@ ("jlongArray" :> <<"[", "J">>)
    @@ ("jfloatArray" :> <<"[", "F">>)
    @@ ("jdoubleArray" :> <<"[", "D">>)
    @@ ("jobjectArray" :> <<"[", "L", "ANY+", ";">>)
    @@ ("JByteBuffer" :> <<"j", "a", "v", "a", "ANY", "n", "i", "o", "ANY", "B", "y", "t", "e", "B", "u", "f", "f", "e", "r">>)
    @@ ("JClass" :> <<"j", "a", "v", "a", "ANY", "l", "a", "n", "g", "ANY", "C", "l", "a", "s", "s">>)
    @@ ("JList" :> <<"j", "a", "v", "a", "ANY", "l", "a", "n", "g", "ANY", "L", "i", "s", "t">>)
    @@ ("JMap" :> <<"j", "a", "v", "a", "ANY", "u", "t", "i", "l", "ANY", "M", "a", "p">>)
    @@ ("JObject" :> <<"L", "ANY+", ";">>)
    @@ ("JObjectArray" :> <<"[", "j", "a", "v", "a", "ANY", "l", "a", "n", "g", "ANY", "O", "b", "j", "e", "c", "t">>)
    @@ ("JPrimitiveArray" :> <<"[", "PRIM">>)
    @@ ("JString" :> <<"j", "a", "v", "a", "ANY", "l", "a", "n", "g", "ANY", "S", "t", "r", "i", "n", "g">>)
    @@ ("JThrowable" :> <<"j", "a", "v", "a", "ANY", "l", "a", "n", "g", "ANY", "T", "h", "r", "o", "w", "a", "b", "l", "e">>)

----------------------------------------------------------------------------
(* The state machine of verify_signature *)

NoDiag ==
    [expected |-> "", nativeType |-> "", fragment |-> <<>>,
     sigCount |-> -1, fnCount |-> -1, position |-> -1]

\* A variant in which the return type is checked before the parameters.
StageAfterReturnFirst(stage) ==
    CASE stage = "parse" -> "naming"
      [] stage = "naming" -> "env"
      [] stage = "env" -> "class"
      [] stage = "class" -> "return"
      [] stage = "return" -> "params"
      [] stage = "params" -> "done"

\* The order of the calls in verify_signature's body.
StageAfter(stage) ==
    CASE stage = "parse" -> "naming"
      [] stage = "naming" -> "env"
      [] stage = "env" -> "class"
      [] stage = "class" -> "params"
      [] stage = "params" -> "return"
      [] stage = "return" -> "done"

\* abort!: the expansion ends with a diagnostic; pc stays at the call that aborted.
Abort(kind, d) ==
    /\ outcome' = kind
    /\ diag' = d
    /\ pc' = pc

Proceed ==
    /\ pc' = StageAfter(pc)
    /\ outcome' = IF StageAfter(pc) = "done" THEN "Pass" ELSE "none"
    /\ diag' = diag

\* parse_macro_input!(args as Args): Args::parse.
ParseArgs ==
    /\ pc = "parse" /\ outcome = "none"
    /\ IF SignatureMatches(sig)
       THEN /\ signature' = ParseSignature(sig)
            /\ Proceed
       ELSE /\ signature' = signature
            /\ Abort("MalformedDescriptor", NoDiag)
    /\ UNCHANGED <<name, sig, ident, inputs, output, arguments, lookups>>

\* Regex::new on "Java_.+" + "_" + name.  The method name is pasted into the
\* pattern unescaped: "." becomes `.`, an unclosed "(" makes the pattern
\* invalid, a word character stands for itself.  (Method names of the model
\* hold no other character.)
NameRegexCompiles(n) == \A k \in 1..Len(n) : n[k] # "("
NameAtom(c) == IF c = "." THEN "ANY" ELSE c
NamePattern(n) ==
    <<"J", "a", "v", "a", "_", "ANY+", "_">> \o [k \in 1..Len(n) |-> NameAtom(n[k])]

\* The condition under which ensure_function_name_is_valid_for_jni returns.
FunctionNameIsValid(function_name, n) ==
    NameRegexCompiles(n) /\ IsMatch(NamePattern(n), function_name)

\* ensure_function_name_is_valid_for_jni, then the collect of line 263.
EnsureFunctionNameIsValidForJni ==
    /\ pc = "naming" /\ outcome = "none"
    /\ IF FunctionNameIsValid(ident, name)
       THEN /\ arguments' = inputs
            /\ Proceed
       ELSE /\ arguments' = arguments
            /\ Abort("NamingConventionMismatch", NoDiag)
    /\ UNCHANGED <<name, sig, ident, inputs, output, signature, lookups>>

\* A variant that lets a missing parameter through.
ParamIsOrMissing(param, param_type) == param = <<>> \/ param[1] = param_type

\* The test of ensure_param_is on the Option it is given (<<>> is None).
ParamIs(param, param_type) == param # <<>> /\ param[1] = param_type

\* arguments.pop_front(): the Option popped, and what is left.
PopFront(q) == IF q = <<>> THEN <<>> ELSE <<Head(q)>>
AfterPopFront(q) == IF q = <<>> THEN <<>> ELSE Tail(q)

\* ensure_param_is(&function, arguments.pop_front(), param_type)
EnsureParamIs(stage, param_type, index) ==
    /\ pc = stage /\ outcome = "none"
    /\ arguments' = AfterPopFront(arguments)
    /\ IF ParamIs(PopFront(arguments), param_type)
       THEN Proceed
       ELSE Abort("MissingOrWrongContextParameter",
                  [NoDiag EXCEPT !.expected = param_type,
                                 !.nativeType = IF arguments = <<>> THEN "{None}"
                                                ELSE Head(arguments),
                                 !.position = IF arguments = <<>> THEN 0 ELSE index])
    /\ UNCHANGED <<name, sig, ident, inputs, output, signature, lookups>>

EnsureParamIsJNIEnv == EnsureParamIs("env", "JNIEnv", 1)
EnsureParamIsJClass == EnsureParamIs("class", "JClass", 2)

\* A variant that never compares the last pair.
RECURSIVE ScanParametersSkipsLast(_, _, _)
ScanParametersSkipsLast(args, params, i) ==
    IF i >= Len(args) THEN [result |-> "all", at |-> Len(args)]
    ELSE IF args[i] \notin DOMAIN TYPE_TO_DESCRIPTOR THEN [result |-> "unknown", at |-> i]
    ELSE IF ~IsMatch(TYPE_TO_DESCRIPTOR[args[i]], params[i]) THEN [result |-> "mismatch", at |-> i]
    ELSE ScanParametersSkipsLast(args, params, i + 1)

\* A variant that looks every type up before it compares any pair.
RECURSIVE ScanKnownParameters(_, _, _)
ScanKnownParameters(args, params, i) ==
    IF i > Len(args) THEN [result |-> "all", at |-> Len(args)]
    ELSE IF ~IsMatch(TYPE_TO_DESCRIPTOR[args[i]], params[i]) THEN [result |-> "mismatch", at |-> i]
    ELSE ScanKnownParameters(args, params, i + 1)
ScanParametersEager(args, params, i) ==
    IF \E k \in i..Len(args) : args[k] \notin DOMAIN TYPE_TO_DESCRIPTOR
    THEN [result |-> "unknown",
          at |-> Least({k \in i..Len(args) : args[k] \notin DOMAIN TYPE_TO_DESCRIPTOR})]
    ELSE ScanKnownParameters(args, params, i)

\* The iterator chain of ensure_parameters_match: map(lookup) . zip(params) .
\* map(is_match) . all(|b| b).  It is lazy: position i is looked up only when
\* every earlier pair matched, and `all` stops at the first pair that does not.
\* Gives what ends the scan and the position it ends at.
RECURSIVE ScanParameters(_, _, _)
ScanParameters(args, params, i) ==
    IF i > Len(args) THEN [result |-> "all", at |-> Len(args)]
    ELSE IF args[i] \notin DOMAIN TYPE_TO_DESCRIPTOR THEN [result |-> "unknown", at |-> i]
    ELSE IF ~IsMatch(TYPE_TO_DESCRIPTOR[args[i]], params[i]) THEN [result |-> "mismatch", at |-> i]
    ELSE ScanParameters(args, params, i + 1)

\* The comparison of the two lengths at the head of ensure_parameters_match.
CountsDiffer(params, args) == Len(params) # Len(args)

\* ensure_parameters_match(&arguments.make_contiguous(), &signature)
EnsureParametersMatch ==
    /\ pc = "params" /\ outcome = "none"
    /\ IF CountsDiffer(signature.params, arguments)
       THEN /\ lookups' = lookups
            /\ Abort("ParameterCountMismatch",
                     [NoDiag EXCEPT !.sigCount = Len(signature.params),
                                    !.fnCount = Len(arguments)])
       ELSE LET scan == ScanParameters(arguments, signature.params, 1)
            IN  /\ lookups' = lookups \o SubSeq(arguments, 1, scan.at)
                /\ CASE scan.result = "unknown" ->
                            Abort("UnknownNativeType",
                                  [NoDiag EXCEPT !.nativeType = arguments[scan.at],
                                                 !.position = scan.at + 2])
                     [] scan.result = "mismatch" -> Abort("ParameterTypeMismatch", NoDiag)
                     [] scan.result = "all" -> Proceed
    /\ UNCHANGED <<name, sig, ident, inputs, output, signature, arguments>>

\* A variant that names the missing return type by its descriptor code.
ReturnTypeStringVoidCode(out) == IF out = <<>> THEN "V" ELSE out[1]

\* return_type_string: ReturnType::Default gives "()".
ReturnTypeString(out) == IF out = <<>> THEN "()" ELSE out[1]

\* ensure_return_types_match(&function, &signature); then `output` is returned.
EnsureReturnTypesMatch ==
    /\ pc = "return" /\ outcome = "none"
    /\ lookups' = Append(lookups, ReturnTypeString(output))
    /\ IF ReturnTypeString(output) \notin DOMAIN TYPE_TO_DESCRIPTOR
       THEN Abort("UnknownNativeType",
                  [NoDiag EXCEPT !.nativeType = ReturnTypeString(output)])
       ELSE IF ~IsMatch(TYPE_TO_DESCRIPTOR[ReturnTypeString(output)], signature.ret)
       THEN Abort("ReturnTypeMismatch",
                  [NoDiag EXCEPT !.nativeType = ReturnTypeString(output),
                                 !.fragment = signature.ret])
       ELSE Proceed
    /\ UNCHANGED <<name, sig, ident, inputs, output, signature, arguments>>

----------------------------------------------------------------------------
(* The inputs: the macro's two arguments and the function it is attached to *)

\* Bounds of the input sets.
MaxParams == 2
MaxRawLen == 4
MaxNameLen == 2

SeqsUpTo(S, n) == UNION {[1..k -> S] : k \in 0..n}

FragInt == <<"I">>
FragFloat == <<"F">>
FragVoid == <<"V">>
FragString == <<"L", "j", "a", "v", "a", ".", "l", "a", "n", "g", ".", "S", "t", "r", "i", "n", "g", ";">>
FragDotRef == <<"L", "p", "k", "g", ".", "F", "o", "o", ";">>
FragSlashRef == <<"L", "p", "k", "g", "/", "F", "o", "o", ";">>
FragJavaLangFoo == <<"L", "j", "a", "v", "a", ".", "l", "a", "n", "g", ".", "F", "o", "o", ";">>
FragIntArray == <<"[", "I">>
FragNestedIntArray == <<"[", "[", "I">>
FragNestedStringArray == <<"[", "[", "L", "j", "a", "v", "a", ".", "l", "a", "n", "g", ".", "S", "t", "r", "i", "n", "g", ";">>
MethodFoo == <<"f", "o", "o">>
IdentJavaTestFoo == <<"J", "a", "v", "a", "_", "T", "e", "s", "t", "_", "f", "o", "o">>
IdentJavaTestWrongName == <<"J", "a", "v", "a", "_", "T", "e", "s", "t", "_", "w", "r", "o", "n", "g", "N", "a", "m", "e">>
DescriptorIntToInt == <<"(", "I", ")", "I">>

Descriptor(ps, r) == <<"(">> \o Flatten(ps) \o <<")">> \o r

\* Descriptors and declarations for the whole pipeline: every stage can pass
\* and can fail.  "Foo" and "jni::JNIEnv" are type names the registry and the
\* context check do not know.
PipelineFragments == {FragInt, FragString, FragIntArray}
PipelineReturns == {FragVoid, FragInt, FragString}
PipelineTypes == {"jint", "JString", "jintArray", "Foo"}
PipelineOutputs == {<<>>, <<"jint">>, <<"jstring">>, <<"Foo">>}
GoodContext == <<"JNIEnv", "JClass">>
BadContexts ==
    {<<>>, <<"JNIEnv">>, <<"jni::JNIEnv", "JClass">>, <<"JNIEnv", "JObject">>,
     <<"JClass", "JNIEnv">>}
PipelineInputs ==
    {GoodContext \o as : as \in SeqsUpTo(PipelineTypes, MaxParams)}
    \cup {ctx \o as : ctx \in BadContexts, as \in SeqsUpTo(PipelineTypes, 1)}

\* Well-formed descriptors over every kind of fragment, each with a function
\* declared with the native types that stand for the fragments.
AllFragments ==
    {FragInt, FragFloat, FragString, FragDotRef, FragSlashRef, FragIntArray,
     FragNestedIntArray, FragNestedStringArray}
AllReturns == {FragVoid, FragInt, FragString, FragJavaLangFoo, FragSlashRef}
NativeTypesFor(f) ==
    CASE f = FragVoid -> {"()"}
      [] f = FragInt -> {"jint"}
      [] f = FragFloat -> {"jfloat"}
      [] f = FragString -> {"JString", "jstring"}
      [] f \in {FragDotRef, FragSlashRef, FragJavaLangFoo} -> {"JObject", "jobject"}
      [] f = FragIntArray -> {"jintArray"}
      [] f \in {FragNestedIntArray, FragNestedStringArray} -> {"jarray"}
OutputsFor(r) ==
    IF r = FragVoid THEN {<<>>}
    ELSE {<<t>> : t \in NativeTypesFor(r)}
DeclarationsFor(ps) ==
    {GoodContext \o ts : ts \in {t \in [1..Len(ps) -> UNION {NativeTypesFor(f) : f \in AllFragments}] :
                                   \A i \in 1..Len(ps) : t[i] \in NativeTypesFor(ps[i])}}

\* Arbitrary descriptor text.
RawAlphabet == {"(", ")", "I", "V", "x", "["}

\* Method names and function identifiers for the naming check.
NameAlphabet == {"f", "o", "_", ".", "("}
IdentAlphabet == {"f", "o", "_"}
IdentHeads == {<<"J", "a", "v", "a", "_">>, <<"j", "a", "v", "a", "_">>,
               <<"x", "J", "a", "v", "a", "_">>}
IdentClasses == {<<>>, <<"T">>}
IdentInputs ==
    {h \o c \o <<"_">> \o m :
        h \in IdentHeads, c \in IdentClasses, m \in SeqsUpTo(IdentAlphabet, MaxNameLen + 1)}

InitPipeline ==
    /\ sig \in {Descriptor(ps, r) : ps \in SeqsUpTo(PipelineFragments, MaxParams),
                                    r \in PipelineReturns}
    /\ name = MethodFoo
    /\ ident \in {IdentJavaTestFoo, IdentJavaTestWrongName}
    /\ inputs \in PipelineInputs
    /\ output \in PipelineOutputs

InitWellFormed ==
    \E ps \in SeqsUpTo(AllFragments, MaxParams), r \in AllReturns :
        /\ sig = Descriptor(ps, r)
        /\ name = MethodFoo
        /\ ident = IdentJavaTestFoo
        /\ inputs \in DeclarationsFor(ps)
        /\ output \in OutputsFor(r)

InitRaw ==
    /\ sig \in SeqsUpTo(RawAlphabet, MaxRawLen)
    /\ name = MethodFoo
    /\ ident = IdentJavaTestFoo
    /\ inputs \in {GoodContext, GoodContext \o <<"jint">>}
    /\ output \in {<<>>, <<"jint">>}

InitNaming ==
    /\ sig = DescriptorIntToInt
    /\ name \in SeqsUpTo(NameAlphabet, MaxNameLen) \ {<<>>}
    /\ ident \in IdentInputs
    /\ inputs = GoodContext \o <<"jint">>
    /\ output = <<"jint">>

\* The four functions of tests/test.rs with the macro arguments they carry.
TestCases ==
    {[name |-> <<"f", "o", "o">>,
      sig |-> <<"(", "L", "s", "o", "m", "e", ".", "p", "a", "c", "k", "a", "g", "e", ".", "F", "o", "o", ";", "a", "s", "d", "I", ")", "L", "j", "a", "v", "a", ".", "l", "a", "n", "g", ".", "F", "o", "o", ";">>,
      ident |-> <<"J", "a", "v", "a", "_", "W", "o", "r", "l", "d", "_", "f", "o", "o">>,
      inputs |-> <<"JNIEnv", "JClass", "JObject", "jint">>, output |-> <<"jfloat">>],
     [name |-> <<"f", "o", "o", "2">>,
      sig |-> <<"(", "L", "j", "a", "v", "a", ".", "l", "a", "n", "g", ".", "S", "t", "r", "i", "n", "g", ";", "F", ")", "L", "j", "a", "v", "a", ".", "l", "a", "n", "g", ".", "S", "t", "r", "i", "n", "g", ";">>,
      ident |-> <<"J", "a", "v", "a", "_", "T", "e", "s", "t", "_", "f", "o", "o", "2">>,
      inputs |-> <<"JNIEnv", "JClass", "JString", "jfloat">>, output |-> <<"jstring">>],
     [name |-> <<"f", "o", "o", "3">>,
      sig |-> <<"(", ")", "L", "j", "a", "v", "a", ".", "l", "a", "n", "g", ".", "S", "t", "r", "i", "n", "g", ";">>,
      ident |-> <<"J", "a", "v", "a", "_", "T", "e", "s", "t", "_", "f", "o", "o", "3">>,
      inputs |-> <<"JNIEnv", "JClass">>, output |-> <<"jstring">>],
     [name |-> <<"f", "o", "o", "4", "_", "1", "2", "3", "_", "d", "_", "_", "_", "_">>,
      sig |-> <<"(", "L", "j", "a", "v", "a", ".", "l", "a", "n", "g", ".", "S", "t", "r", "i", "n", "g", ";", "F", ")", "V">>,
      ident |-> <<"J", "a", "v", "a", "_", "T", "e", "s", "t", "_", "f", "o", "o", "4", "_", "1", "2", "3", "_", "d", "_", "_", "_", "_">>,
      inputs |-> <<"JNIEnv", "JClass", "JString", "jfloat">>, output |-> <<>>]}

InitTests ==
    \E t \in TestCases :
        /\ name = t.name /\ sig = t.sig /\ ident = t.ident
        /\ inputs = t.inputs /\ output = t.output

Init ==
    /\ InitPipeline \/ InitWellFormed \/ InitRaw \/ InitNaming \/ InitTests
    /\ pc = "parse"
    /\ signature = [params |-> <<>>, ret |-> <<>>]
    /\ arguments = <<>>
    /\ lookups = <<>>
    /\ outcome = "none"
    /\ diag = NoDiag

----------------------------------------------------------------------------
(* The specification *)

Next ==
    \/ ParseArgs
    \/ EnsureFunctionNameIsValidForJni
    \/ EnsureParamIsJNIEnv
    \/ EnsureParamIsJClass
    \/ EnsureParametersMatch
    \/ EnsureReturnTypesMatch

Spec == Init /\ [][Next]_vars

----------------------------------------------------------------------------
(* What the specification says of descriptors and bindings, stated on the   *)
(* inputs alone                                                            *)

\* The descriptor grammar "(" fragment* ")" fragment: a fragment is a run of
\* array markers followed by a primitive code or by L <class path> ";".
RefPathChars == WordChars \cup {".", "/", "$"}
ParamCodes == PrimCodes \ {"V"}

RECURSIVE RunBrackets(_, _)
RunBrackets(s, p) == IF p <= Len(s) /\ s[p] = "[" THEN 1 + RunBrackets(s, p + 1) ELSE 0
RECURSIVE RunRefPath(_, _)
RunRefPath(s, p) == IF p <= Len(s) /\ s[p] \in RefPathChars THEN 1 + RunRefPath(s, p + 1) ELSE 0

\* The position just after the fragment that starts at p, or 0.
FragmentEnd(s, p) ==
    LET q == p + RunBrackets(s, p)
    IN  IF q > Len(s) THEN 0
        ELSE IF s[q] \in ParamCodes THEN q + 1
        ELSE IF s[q] = "L" /\ RunRefPath(s, q + 1) >= 1
                /\ q + 1 + RunRefPath(s, q + 1) <= Len(s)
                /\ s[q + 1 + RunRefPath(s, q + 1)] = ";"
        THEN q + RunRefPath(s, q + 1) + 2
        ELSE 0

RECURSIVE IsFragments(_, _)
IsFragments(s, p) ==
    IF p > Len(s) THEN TRUE
    ELSE FragmentEnd(s, p) # 0 /\ IsFragments(s, FragmentEnd(s, p))

RECURSIVE Fragments(_, _)
Fragments(s, p) ==
    IF p > Len(s) \/ FragmentEnd(s, p) = 0 THEN <<>>
    ELSE <<Slice(s, p, FragmentEnd(s, p))>> \o Fragments(s, FragmentEnd(s, p))

IsReturnFragment(r) == r = <<"V">> \/ (r # <<>> /\ FragmentEnd(r, 1) = Len(r) + 1)

ClosePos(s) == Least({c \in 1..Len(s) : s[c] = ")"})
WellFormed(s) ==
    /\ Len(s) >= 3 /\ s[1] = "("
    /\ \E c \in 1..Len(s) : s[c] = ")"
    /\ IsFragments(Slice(s, 2, ClosePos(s)), 1)
    /\ IsReturnFragment(Slice(s, ClosePos(s) + 1, Len(s) + 1))
WellFormedParams(s) == Fragments(Slice(s, 2, ClosePos(s)), 1)
WellFormedReturn(s) == Slice(s, ClosePos(s) + 1, Len(s) + 1)

\* The identifier is "Java_" + <non-empty text> + "_" + n, n taken literally.
CanonicalName(id, n) ==
    /\ Len(id) >= 7 + Len(n)
    /\ SubSeq(id, 1, 5) = <<"J", "a", "v", "a", "_">>
    /\ SubSeq(id, Len(id) - Len(n), Len(id)) = <<"_">> \o n

\* The canonical native type of a primitive code.
PrimitiveNative ==
    ("I" :> "jint") @@ ("J" :> "jlong") @@ ("B" :> "jbyte") @@ ("Z" :> "jboolean")
    @@ ("C" :> "jchar") @@ ("S" :> "jshort") @@ ("F" :> "jfloat") @@ ("D" :> "jdouble")
PrimitiveArrayNative ==
    ("I" :> "jintArray") @@ ("J" :> "jlongArray") @@ ("B" :> "jbyteArray")
    @@ ("Z" :> "jbooleanArray") @@ ("C" :> "jcharArray") @@ ("S" :> "jshortArray")
    @@ ("F" :> "jfloatArray") @@ ("D" :> "jdoubleArray")
CodeOfPrimitive ==
    ("jint" :> "I") @@ ("jlong" :> "J") @@ ("jbyte" :> "B") @@ ("jboolean" :> "Z")
    @@ ("jchar" :> "C") @@ ("jshort" :> "S") @@ ("jfloat" :> "F") @@ ("jdouble" :> "D")
    @@ ("()" :> "V")

\* Primitive codes, L...; references and arrays of one primitive.
IsCanonicalKind(f) ==
    \/ Len(f) = 1 /\ f[1] \in ParamCodes
    \/ f[1] = "L"
    \/ Len(f) = 2 /\ f[1] = "[" /\ f[2] \in ParamCodes
CanonicalNative(f) ==
    IF Len(f) = 1 THEN {PrimitiveNative[f[1]]}
    ELSE IF f[1] = "[" THEN {PrimitiveArrayNative[f[2]]}
    ELSE IF f = FragString THEN {"JString", "jstring", "JObject", "jobject"}
    ELSE {"JObject", "jobject"}

CanonicalBinding ==
    /\ WellFormed(sig)
    /\ \A i \in 1..Len(WellFormedParams(sig)) : IsCanonicalKind(WellFormedParams(sig)[i])
    /\ WellFormedReturn(sig) = <<"V">> \/ IsCanonicalKind(WellFormedReturn(sig))
    /\ CanonicalName(ident, name)
    /\ Len(inputs) = 2 + Len(WellFormedParams(sig))
    /\ inputs[1] = "JNIEnv" /\ inputs[2] = "JClass"
    /\ \A i \in 1..Len(WellFormedParams(sig)) :
            inputs[i + 2] \in CanonicalNative(WellFormedParams(sig)[i])
    /\ IF WellFormedReturn(sig) = <<"V">> THEN output = <<>>
       ELSE output # <<>> /\ output[1] \in CanonicalNative(WellFormedReturn(sig))

\* The stages of the specification's order, each read off the inputs.
Terminal == outcome # "none"
Rest == SubSeq(inputs, 3, Len(inputs))
Tokens == ParseSignature(sig).params
ReturnFragment == SignatureCaptures(sig).ret
DeclaredReturn == IF output = <<>> THEN "()" ELSE output[1]
Known(t) == t \in DOMAIN TYPE_TO_DESCRIPTOR
PairMatches(i) == IsMatch(TYPE_TO_DESCRIPTOR[Rest[i]], Tokens[i])

NamingViolated == ~FunctionNameIsValid(ident, name)
EnvViolated == inputs = <<>> \/ inputs[1] # "JNIEnv"
ClassViolated == Len(inputs) < 2 \/ inputs[2] # "JClass"
CountViolated == Len(Tokens) # Len(Rest)
TypesViolated == \E i \in 1..Len(Rest) : ~Known(Rest[i]) \/ ~PairMatches(i)
ReturnViolated ==
    ~Known(DeclaredReturn) \/ ~IsMatch(TYPE_TO_DESCRIPTOR[DeclaredReturn], ReturnFragment)

----------------------------------------------------------------------------
(* The claims *)

\* C1: for a descriptor the parser accepts, the checks run in the order naming,
\* JNIEnv, JClass, parameter count, parameter types, return type, and the
\* failure reported is that of the earliest violated stage; a violated naming
\* convention gives NamingConventionMismatch whatever else is wrong.
C1_FailFastOrder ==
    (Terminal /\ SignatureMatches(sig)) =>
        IF NamingViolated THEN outcome = "NamingConventionMismatch" /\ pc = "naming"
        ELSE IF EnvViolated
        THEN outcome = "MissingOrWrongContextParameter" /\ pc = "env" /\ diag.expected = "JNIEnv"
        ELSE IF ClassViolated
        THEN outcome = "MissingOrWrongContextParameter" /\ pc = "class" /\ diag.expected = "JClass"
        ELSE IF CountViolated THEN outcome = "ParameterCountMismatch" /\ pc = "params"
        ELSE IF TypesViolated
        THEN outcome \in {"ParameterTypeMismatch", "UnknownNativeType"} /\ pc = "params"
        ELSE IF ReturnViolated
        THEN outcome \in {"ReturnTypeMismatch", "UnknownNativeType"} /\ pc = "return"
        ELSE outcome = "Pass" /\ pc = "done"

\* A naming failure reported although the context parameters, the parameter
\* count and the return type are wrong as well.
C1_Witness ==
    /\ outcome = "NamingConventionMismatch"
    /\ EnvViolated /\ CountViolated /\ ReturnViolated

\* C2: the naming check passes exactly when the identifier is
\* "Java_" + <non-empty text> + "_" + methodName with methodName literal and
\* nothing after it; otherwise the outcome is NamingConventionMismatch.
C2_NamingIsExactLiteral ==
    (Terminal /\ SignatureMatches(sig)) =>
        ((outcome # "NamingConventionMismatch") <=> CanonicalName(ident, name))

\* C3: every canonically matching binding of a well-formed descriptor passes.
C3_CanonicalBindingPasses ==
    (Terminal /\ CanonicalBinding) => outcome = "Pass"

\* C4: past the naming and context checks, differing counts give
\* ParameterCountMismatch with both counts and no registry lookup; with equal
\* counts and every declared type in the registry, ParameterTypeMismatch is
\* the outcome exactly when some positional pair fails its pattern test.
C4_ParameterStage ==
    (Terminal /\ pc \in {"params", "return", "done"}) =>
        /\ Len(signature.params) # Len(inputs) - 2 =>
                /\ outcome = "ParameterCountMismatch"
                /\ diag.sigCount = Len(signature.params)
                /\ diag.fnCount = Len(inputs) - 2
                /\ lookups = <<>>
        /\ (Len(signature.params) = Len(inputs) - 2 /\ \A i \in 1..Len(Rest) : Known(Rest[i])) =>
                ((outcome = "ParameterTypeMismatch") <=>
                    \E i \in 1..Len(Rest) :
                        ~IsMatch(TYPE_TO_DESCRIPTOR[inputs[i + 2]], signature.params[i]))

\* A type mismatch found at the second position, after the first pair matched.
C4_Witness ==
    /\ outcome = "ParameterTypeMismatch"
    /\ Len(lookups) = 2

\* C5: past the parameter checks, with a declared return type the registry
\* knows (no declared type standing for "()"), the outcome is Pass exactly
\* when its pattern matches the descriptor's return fragment, and otherwise
\* ReturnTypeMismatch naming the native type and the fragment.
C5_ReturnStage ==
    (Terminal /\ pc \in {"return", "done"} /\ Known(DeclaredReturn)) =>
        IF IsMatch(TYPE_TO_DESCRIPTOR[DeclaredReturn], ReturnFragment)
        THEN outcome = "Pass"
        ELSE /\ outcome = "ReturnTypeMismatch"
             /\ diag.nativeType = DeclaredReturn
             /\ diag.fragment = ReturnFragment

\* A function without a return type against a descriptor that returns a value.
C5_Witness ==
    /\ outcome = "ReturnTypeMismatch"
    /\ output = <<>>
    /\ diag.nativeType = "()"

\* C6: with the naming check passed, a missing or wrong JNIEnv or JClass gives
\* MissingOrWrongContextParameter with the expected type and the position,
\* whatever the rest of the signature; when both are there they are taken off
\* the comparison list and never looked up or counted.
C6_ContextParameters ==
    /\ (Terminal /\ SignatureMatches(sig) /\ ~NamingViolated /\ (EnvViolated \/ ClassViolated)) =>
            /\ outcome = "MissingOrWrongContextParameter"
            /\ diag.expected = IF EnvViolated THEN "JNIEnv" ELSE "JClass"
            /\ diag.position = IF EnvViolated
                               THEN (IF inputs = <<>> THEN 0 ELSE 1)
                               ELSE (IF Len(inputs) < 2 THEN 0 ELSE 2)
    /\ pc \in {"params", "return", "done"} =>
            /\ Len(inputs) >= 2 /\ inputs[1] = "JNIEnv" /\ inputs[2] = "JClass"
            /\ arguments = Rest
            /\ (pc = "params" => lookups = SubSeq(Rest, 1, Len(lookups)))
            /\ (outcome = "ParameterCountMismatch" => diag.fnCount = Len(inputs) - 2)

\* A wrong first parameter reported although everything after it matches.
C6_Witness ==
    /\ outcome = "MissingOrWrongContextParameter"
    /\ diag.position = 1
    /\ Len(inputs) >= 2 /\ ~CountViolated /\ ~TypesViolated /\ ~ReturnViolated

\* C7: a descriptor that is not "(" fragment* ")" fragment is rejected by
\* the parser with MalformedDescriptor and never reaches a later stage.
C7_MalformedRejected ==
    ~WellFormed(sig) =>
        /\ pc = "parse"
        /\ outcome \in {"none", "MalformedDescriptor"}

\* C8: a well-formed descriptor whose references use "." as the separator
\* parses into exactly its fragments, nested arrays keeping every array
\* marker, so that re-serializing gives back the text.
C8_RoundTrip ==
    (WellFormed(sig) /\ pc # "parse" /\ \A k \in 1..Len(sig) : sig[k] \notin {"/", "$"}) =>
        /\ signature.params = WellFormedParams(sig)
        /\ Descriptor(signature.params, signature.ret) = sig

\* The first parameter type without a registry entry (one past the last
\* position when all are known), and the positions that matter before it.
FirstUnknown ==
    Least({i \in 1..(Len(Rest) + 1) : i = Len(Rest) + 1 \/ ~Known(Rest[i])})
MismatchBeforeUnknown == \E i \in 1..(FirstUnknown - 1) : ~PairMatches(i)
SomeTypeUnknown == (\E i \in 1..Len(Rest) : ~Known(Rest[i])) \/ ~Known(DeclaredReturn)

\* C9 as stated: past the naming, context and count checks, a declared
\* parameter or return type without registry entry always gives
\* UnknownNativeType.
C9_UnknownAlwaysReported ==
    (Terminal /\ pc \in {"params", "return", "done"} /\ ~CountViolated /\ SomeTypeUnknown) =>
        outcome = "UnknownNativeType"

\* C9 as amended: in that case the outcome is never Pass; it is
\* ParameterTypeMismatch when a pair before the first unknown parameter type
\* (any pair, when only the return type is unknown) fails its pattern test,
\* and UnknownNativeType otherwise.
C9_UnknownNeverPasses ==
    (Terminal /\ pc \in {"params", "return", "done"} /\ ~CountViolated /\ SomeTypeUnknown) =>
        IF MismatchBeforeUnknown
        THEN outcome = "ParameterTypeMismatch"
        ELSE /\ outcome = "UnknownNativeType"
             /\ diag.nativeType = IF FirstUnknown <= Len(Rest) THEN Rest[FirstUnknown]
                                  ELSE DeclaredReturn

\* An unknown type at the second position, reached after the first pair matched.
C9_Witness ==
    /\ outcome = "UnknownNativeType"
    /\ pc = "params"
    /\ diag.position = 4

\* C10: a primitive native type, or "()", accepts a fragment only when the
\* fragment is exactly its one-letter code.
C10_PrimitiveMatchesWholeFragment ==
    outcome = "Pass" =>
        /\ \A i \in 1..Len(Rest) :
                Rest[i] \in DOMAIN CodeOfPrimitive =>
                    signature.params[i] = <<CodeOfPrimitive[Rest[i]]>>
        /\ DeclaredReturn \in DOMAIN CodeOfPrimitive =>
                signature.ret = <<CodeOfPrimitive[DeclaredReturn]>>

====
